---- MODULE Spec2Model ----
(***************************************************************************)
(* Model of src/main.py: a FastAPI service over a SQLite store with two    *)
(* tables, Company and Feedback.  Each request handler runs on a worker    *)
(* thread with its own Session; every SQL statement a handler issues is    *)
(* one atomic step, and steps of different workers interleave freely.      *)
(*                                                                         *)
(* Optional[T] values are modelled as sets: {} is None, {v} is the value   *)
(* v.  Floats that the code rounds to two decimals are integers counting   *)
(* hundredths (4.67 is 467).                                               *)
(***************************************************************************)
EXTENDS Integers, Sequences, FiniteSets, TLC

\* ---- bounds of the model ------------------------------------------------
\* Number of worker threads serving requests concurrently.
NumWorkers == 2
\* Cap on the number of Feedback rows (committed or about to be inserted).
MaxFeedbacks == 3

Workers == 1..NumWorkers

\* ---- the schema ---------------------------------------------------------
None == {}
Some(v) == {v}
\* The value inside a non-None optional.
TheVal(o) == CHOOSE v \in o : TRUE

\* enum FeedbackType
FeedbackType == {"reclamacao", "elogio"}

\* The three rows lifespan() inserts into an empty Company table; SQLite hands
\* out rowids 1, 2, 3 in the order of the session.add calls.
SeedCompanies ==
    { [id |-> 1, name |-> "Empresa Alpha DB",    industry |-> Some("Tecnologia")],
      [id |-> 2, name |-> "Consultoria Beta DB", industry |-> Some("Consultoria")],
      [id |-> 3, name |-> "Varejo Gamma DB",     industry |-> Some("Varejo")] }

\* ---- request inputs -----------------------------------------------------
\* Bodies of POST /feedbacks: FeedbackCreate payloads before validation.
Payload(t, r, c, cid) == [type |-> t, rating |-> r, comment |-> c, company_id |-> cid]

FeedbackInputs ==
    { Payload("elogio",     4, None,         Some(1)),
      Payload("elogio",     5, Some("bom"),  Some(1)),
      Payload("reclamacao", 3, None,         Some(1)),
      Payload("reclamacao", 1, Some("ruim"), Some(3)),
      Payload("elogio",     2, None,         Some(3)),
      Payload("elogio",     0, None,         Some(1)),
      Payload("elogio",     6, None,         Some(1)),
      Payload("outro",      3, None,         Some(1)),
      Payload("elogio",     4, None,         None),
      Payload("reclamacao", 5, None,         Some(4)),
      Payload("elogio",     6, None,         Some(4)) }

\* Path parameters of GET /companies/{company_id}/...: integers.
PathIds == {1, 4}

VARIABLES
    phase,           \* "down" | "up": whether lifespan() has run and the app serves
    companies,       \* the Company table: a set of rows
    feedbacks,       \* the Feedback table: the committed rows
    writer,          \* the worker holding SQLite's write lock: {} or {w}
    clock,           \* the server clock datetime.now() reads
    pc,              \* per worker: the statement the handler executes next
    req,             \* per worker: the request being served
    company,         \* per worker: the handler's local `company`
    db_feedback,     \* per worker: create_feedback's local `db_feedback`
    ratings_result,  \* per worker: get_company_reputation's local `ratings_result`
    resp,            \* per worker: the response sent
    seen             \* per worker: number of committed Feedback rows when the
                     \* request arrived, at its ratings query and at its response

vars == <<phase, companies, feedbacks, writer, clock, pc, req, company,
          db_feedback, ratings_result, resp, seen>>

NoReq == [op |-> "none", arg |-> 0]
NoResp == [status |-> 0, body |-> "none"]
NoSeen == [start |-> 0, mid |-> 0, end |-> 0]

Init ==
    /\ phase = "down"
    /\ companies = {}
    /\ feedbacks = {}
    /\ writer = None
    /\ clock = 0
    /\ pc = [w \in Workers |-> "idle"]
    /\ req = [w \in Workers |-> NoReq]
    /\ company = [w \in Workers |-> None]
    /\ db_feedback = [w \in Workers |-> None]
    /\ ratings_result = [w \in Workers |-> <<>>]
    /\ resp = [w \in Workers |-> NoResp]
    /\ seen = [w \in Workers |-> NoSeen]

\* ---- the validation layer ------------------------------------------------
\* Validate with the upper bound of the rating forgotten: Field(ge=1).
ValidateNoUpperBound(d) ==
    /\ d.type \in FeedbackType
    /\ d.rating >= 1

\* Pydantic's check of a FeedbackCreate body: `type` is a FeedbackType and
\* `rating` satisfies Field(ge=1, le=5).  comment and company_id are optional.
Validate(d) ==
    /\ d.type \in FeedbackType
    /\ d.rating >= 1
    /\ d.rating <= 5

\* ---- the store ------------------------------------------------------------
\* SessionGetCompany with the existence check lost: any row stands in for a
\* missing one.
SessionGetUnchecked(pk) ==
    IF companies = {} THEN None
    ELSE LET rows == {c \in companies : Some(c.id) = pk}
         IN  Some(CHOOSE c \in companies : rows # {} => c \in rows)

\* SessionGetCompany with a None key matching the first row.
SessionGetNoneAsFirst(pk) ==
    LET rows == IF pk = None THEN {c \in companies : c.id = 1}
                ELSE {c \in companies : c.id = TheVal(pk)}
    IN  IF rows = {} THEN None ELSE Some(CHOOSE c \in rows : TRUE)

\* SessionGetCompany comparing the key with <= : the row with the largest id
\* not above the key.
SessionGetAtMost(pk) ==
    IF pk = None THEN None
    ELSE LET rows == {c \in companies : c.id <= TheVal(pk)}
         IN  IF rows = {} THEN None
             ELSE Some(CHOOSE c \in rows : \A o \in rows : o.id <= c.id)

\* session.get(Company, pk): the row with that primary key, or None; a None
\* key loads nothing.
SessionGetCompany(pk) ==
    IF pk = None THEN None
    ELSE LET rows == {c \in companies : c.id = TheVal(pk)}
         IN  IF rows = {} THEN None ELSE Some(CHOOSE c \in rows : TRUE)

\* SelectFeedbacks with the where clause forgotten.
SelectAllFeedbacks(cid) == feedbacks

\* select(Feedback).where(Feedback.company_id == company_id)
SelectFeedbacks(cid) == {f \in feedbacks : f.company_id = Some(cid)}

\* The rows of S in rowid order, as SQLite's table scan returns them.
RECURSIVE InIdOrder(_)
InIdOrder(S) ==
    IF S = {} THEN <<>>
    ELSE LET m == CHOOSE r \in S : \A o \in S : r.id <= o.id
         IN  <<m>> \o InIdOrder(S \ {m})

\* select(Feedback.rating).where(Feedback.company_id == company_id): the
\* rating column of the matching rows, each value possibly NULL.
SelectRatings(cid) ==
    LET rows == InIdOrder(SelectFeedbacks(cid))
    IN  [i \in 1..Len(rows) |-> Some(rows[i].rating)]

\* The rowid SQLite gives a row inserted with a NULL INTEGER PRIMARY KEY: one
\* more than the largest rowid in the table.
NextRowId(tbl) ==
    IF tbl = {} THEN 1
    ELSE (CHOOSE m \in {r.id : r \in tbl} : \A r \in tbl : r.id <= m) + 1

\* InsertRow as an upsert keyed by company: the new row replaces the company's
\* earlier ones.
InsertReplacingCompany(tbl, row) ==
    {r \in tbl : r.company_id # row.company_id} \cup {row}

\* INSERT of one row.
InsertRow(tbl, row) == tbl \cup {row}

\* ---- the reputation arithmetic ---------------------------------------------
RECURSIVE SumSeq(_)
\* sum(ratings)
SumSeq(s) == IF s = <<>> THEN 0 ELSE Head(s) + SumSeq(Tail(s))

\* Round2 truncating instead of rounding.
Round2Truncating(s, n) == (100 * s) \div n

\* round(s / n, 2) in hundredths: the hundredth nearest to s/n, a tie going to
\* the even one.  (s/n lies exactly halfway only when 8 divides n.)
Round2(s, n) ==
    LET q == (100 * s) \div n
        r == (100 * s) % n
    IN  IF 2 * r > n \/ (2 * r = n /\ q % 2 = 1) THEN q + 1 ELSE q

\* Lines 126-140 of get_company_reputation: the Reputation built from the
\* company, the ratings query's result and the total count.
BuildReputation(cid, comp, rr, total) ==
    LET ratings == SelectSeq(rr, LAMBDA r : r # None)
        feedback_with_rating_count == Len(ratings)
        vals == [i \in 1..Len(ratings) |-> TheVal(ratings[i])]
    IN  [company_id |-> cid,
         company_name |-> comp.name,
         average_rating |->
             IF feedback_with_rating_count > 0
             THEN Some(Round2(SumSeq(vals), feedback_with_rating_count))
             ELSE None,
         total_feedbacks |-> total,
         feedback_with_rating_count |-> feedback_with_rating_count]

\* ---- bootstrap ---------------------------------------------------------------
\* lifespan(), up to its yield: create the tables and, when the Company table
\* holds no row, insert the three seed companies.
lifespan ==
    /\ phase = "down"
    /\ companies' = IF companies = {} THEN SeedCompanies ELSE companies
    /\ phase' = "up"
    /\ UNCHANGED <<feedbacks, writer, clock, pc, req, company, db_feedback,
                   ratings_result, resp, seen>>

\* lifespan() after its yield: the server stops once no request is in flight.
\* The database file stays.
shutdown ==
    /\ phase = "up"
    /\ \A w \in Workers : pc[w] = "idle"
    /\ phase' = "down"
    /\ UNCHANGED <<companies, feedbacks, writer, clock, pc, req, company,
                   db_feedback, ratings_result, resp, seen>>

\* ---- requests ------------------------------------------------------------------
\* Feedback rows committed or about to be inserted by a request in flight.
Claimed ==
    Cardinality(feedbacks)
    + Cardinality({w \in Workers : pc[w] \in {"cf_flush", "cf_commit"}})

\* Request r reaches idle worker w, which opens a session for it.
Arrive(w, r) ==
    /\ phase = "up"
    /\ pc[w] = "idle"
    /\ req' = [req EXCEPT ![w] = r]

\* The handler of worker w goes on to statement `next`.
Goto(w, next) ==
    /\ pc' = [pc EXCEPT ![w] = next]
    /\ resp' = [resp EXCEPT ![w] = NoResp]

\* Worker w sends its response.
Respond(w, st, b) ==
    /\ pc' = [pc EXCEPT ![w] = "done"]
    /\ resp' = [resp EXCEPT ![w] = [status |-> st, body |-> b]]

\* The bookkeeping of `seen` at a request's first statement and at its last.
SeenFirst(w) ==
    seen' = [seen EXCEPT ![w] =
                [start |-> Cardinality(feedbacks), mid |-> 0,
                 end |-> IF pc'[w] = "done" THEN Cardinality(feedbacks) ELSE 0]]

SeenLast(w) == seen' = [seen EXCEPT ![w].end = Cardinality(feedbacks)]

\* The client has the response; the session is closed and the worker is free.
Return(w) ==
    /\ pc[w] = "done"
    /\ pc' = [pc EXCEPT ![w] = "idle"]
    /\ req' = [req EXCEPT ![w] = NoReq]
    /\ resp' = [resp EXCEPT ![w] = NoResp]
    /\ seen' = [seen EXCEPT ![w] = NoSeen]
    /\ company' = [company EXCEPT ![w] = None]
    /\ db_feedback' = [db_feedback EXCEPT ![w] = None]
    /\ ratings_result' = [ratings_result EXCEPT ![w] = <<>>]
    /\ UNCHANGED <<phase, companies, feedbacks, writer, clock>>

\* GET /
read_root(w) ==
    /\ Arrive(w, [op |-> "read_root", arg |-> 0])
    /\ Respond(w, 200, "Bem-vindo")
    /\ SeenFirst(w)
    /\ UNCHANGED <<phase, companies, feedbacks, writer, clock, company,
                   db_feedback, ratings_result>>

\* get_companies seeding a company on every call, as lifespan does once.
get_companies_seeding(w) ==
    /\ Arrive(w, [op |-> "get_companies", arg |-> 0])
    /\ companies' = companies \cup
           {[id |-> Cardinality(companies) + 1, name |-> "Empresa Alpha DB",
             industry |-> Some("Tecnologia")]}
    /\ Respond(w, 200, companies')
    /\ SeenFirst(w)
    /\ UNCHANGED <<phase, feedbacks, writer, clock, company,
                   db_feedback, ratings_result>>

\* GET /companies
get_companies(w) ==
    /\ Arrive(w, [op |-> "get_companies", arg |-> 0])
    /\ Respond(w, 200, companies)
    /\ SeenFirst(w)
    /\ UNCHANGED <<phase, companies, feedbacks, writer, clock, company,
                   db_feedback, ratings_result>>

\* GET /companies/{company_id}/feedbacks, line 88-90: the company lookup.
get_feedbacks_for_company(w) ==
    /\ \E company_id \in PathIds :
        /\ Arrive(w, [op |-> "get_feedbacks", arg |-> company_id])
        /\ LET found == SessionGetCompany(Some(company_id))
           IN  /\ company' = [company EXCEPT ![w] = found]
               /\ IF found = None
                  THEN Respond(w, 404, "Empresa nao encontrada")
                  ELSE Goto(w, "gf_select")
    /\ SeenFirst(w)
    /\ UNCHANGED <<phase, companies, feedbacks, writer, clock,
                   db_feedback, ratings_result>>

\* GET /companies/{company_id}/feedbacks, line 92-94: the feedback query.
get_feedbacks_select(w) ==
    /\ pc[w] = "gf_select"
    /\ Respond(w, 200, SelectFeedbacks(req[w].arg))
    /\ SeenLast(w)
    /\ UNCHANGED <<phase, companies, feedbacks, writer, clock, req, company,
                   db_feedback, ratings_result>>

\* POST /feedbacks with a body FeedbackCreate rejects: FastAPI answers 422
\* and never calls the handler.
create_feedback_invalid(w) ==
    /\ \E feedback_data \in FeedbackInputs :
        /\ ~Validate(feedback_data)
        /\ Arrive(w, [op |-> "create_feedback", arg |-> feedback_data])
    /\ Respond(w, 422, "validation error")
    /\ SeenFirst(w)
    /\ UNCHANGED <<phase, companies, feedbacks, writer, clock, company,
                   db_feedback, ratings_result>>

\* Feedback.model_validate(feedback_data): the row object, with no id yet and
\* the timestamp its default_factory reads from the clock.
NewFeedback(d, now) ==
    [id |-> None, type |-> d.type, rating |-> d.rating, comment |-> d.comment,
     company_id |-> d.company_id, timestamp |-> now]

\* POST /feedbacks, line 98-107: the company lookup, then the row object is
\* built and queued in the session.
create_feedback(w) ==
    /\ \E feedback_data \in FeedbackInputs :
        /\ Validate(feedback_data)
        /\ Arrive(w, [op |-> "create_feedback", arg |-> feedback_data])
        /\ LET found == SessionGetCompany(feedback_data.company_id)
           IN  /\ company' = [company EXCEPT ![w] = found]
               /\ IF found = None
                  THEN /\ Respond(w, 404, <<"Empresa com ID", feedback_data.company_id,
                                            "nao encontrada.">>)
                       /\ UNCHANGED <<clock, db_feedback>>
                  ELSE /\ Claimed < MaxFeedbacks
                       /\ clock' = clock + 1
                       /\ db_feedback' = [db_feedback EXCEPT ![w] =
                              Some(NewFeedback(feedback_data, clock'))]
                       /\ Goto(w, "cf_flush")
    /\ SeenFirst(w)
    /\ UNCHANGED <<phase, companies, feedbacks, writer, ratings_result>>

\* WriteLockFree with writers not serialized.
NoWriteLock == TRUE

\* SQLite admits one writing transaction at a time.
WriteLockFree == writer = None

\* POST /feedbacks, line 108, first half: session.commit() flushes the INSERT
\* inside a transaction; the statement waits for the write lock, takes it and
\* SQLite assigns the rowid.
create_feedback_flush(w) ==
    /\ pc[w] = "cf_flush"
    /\ WriteLockFree
    /\ writer' = Some(w)
    /\ db_feedback' = [db_feedback EXCEPT ![w] =
           Some([TheVal(db_feedback[w]) EXCEPT !.id = Some(NextRowId(feedbacks))])]
    /\ pc' = [pc EXCEPT ![w] = "cf_commit"]
    /\ UNCHANGED <<phase, companies, feedbacks, clock, req, company,
                   ratings_result, resp, seen>>

\* The row as stored: its id column holds the rowid.
Stored(obj) == [obj EXCEPT !.id = TheVal(obj.id)]

\* POST /feedbacks, line 108, second half: COMMIT makes the row visible to
\* every session and releases the write lock.
create_feedback_commit(w) ==
    /\ pc[w] = "cf_commit"
    /\ feedbacks' = InsertRow(feedbacks, Stored(TheVal(db_feedback[w])))
    /\ writer' = None
    /\ pc' = [pc EXCEPT ![w] = "cf_refresh"]
    /\ UNCHANGED <<phase, companies, clock, req, company, db_feedback,
                   ratings_result, resp, seen>>

\* POST /feedbacks, line 109-111: session.refresh reloads the row by its
\* primary key and the handler returns it with status 201.
create_feedback_refresh(w) ==
    /\ pc[w] = "cf_refresh"
    /\ LET mine == {f \in feedbacks : f.id = TheVal(TheVal(db_feedback[w]).id)}
       IN  IF mine = {}
           THEN /\ Respond(w, 500, "InvalidRequestError")
                /\ UNCHANGED db_feedback
           ELSE \E row \in mine :
                /\ db_feedback' = [db_feedback EXCEPT ![w] =
                       Some([row EXCEPT !.id = Some(row.id)])]
                /\ Respond(w, 201, row)
    /\ SeenLast(w)
    /\ UNCHANGED <<phase, companies, feedbacks, writer, clock, req, company,
                   ratings_result>>

\* GET /companies/{company_id}/reputation, line 116-118: the company lookup.
get_company_reputation(w) ==
    /\ \E company_id \in PathIds :
        /\ Arrive(w, [op |-> "get_reputation", arg |-> company_id])
        /\ LET found == SessionGetCompany(Some(company_id))
           IN  /\ company' = [company EXCEPT ![w] = found]
               /\ IF found = None
                  THEN Respond(w, 404, "Empresa nao encontrada")
                  ELSE Goto(w, "rep_ratings")
    /\ SeenFirst(w)
    /\ UNCHANGED <<phase, companies, feedbacks, writer, clock,
                   db_feedback, ratings_result>>

\* GET /companies/{company_id}/reputation, line 120-121: the ratings query.
get_company_reputation_ratings(w) ==
    /\ pc[w] = "rep_ratings"
    /\ ratings_result' = [ratings_result EXCEPT ![w] = SelectRatings(req[w].arg)]
    /\ seen' = [seen EXCEPT ![w].mid = Cardinality(feedbacks)]
    /\ pc' = [pc EXCEPT ![w] = "rep_total"]
    /\ UNCHANGED <<phase, companies, feedbacks, writer, clock, req, company,
                   db_feedback, resp>>

\* GET /companies/{company_id}/reputation, line 123-140: the second query,
\* counting the rows, and the response.
get_company_reputation_total(w) ==
    /\ pc[w] = "rep_total"
    /\ LET total_feedbacks == Cardinality(SelectFeedbacks(req[w].arg))
       IN  Respond(w, 200, BuildReputation(req[w].arg, TheVal(company[w]),
                                           ratings_result[w], total_feedbacks))
    /\ SeenLast(w)
    /\ UNCHANGED <<phase, companies, feedbacks, writer, clock, req, company,
                   db_feedback, ratings_result>>

Next ==
    \/ lifespan
    \/ shutdown
    \/ \E w \in Workers :
        \/ Return(w)
        \/ read_root(w)
        \/ get_companies(w)
        \/ get_feedbacks_for_company(w)
        \/ get_feedbacks_select(w)
        \/ create_feedback_invalid(w)
        \/ create_feedback(w)
        \/ create_feedback_flush(w)
        \/ create_feedback_commit(w)
        \/ create_feedback_refresh(w)
        \/ get_company_reputation(w)
        \/ get_company_reputation_ratings(w)
        \/ get_company_reputation_total(w)

Spec == Init /\ [][Next]_vars

\* ---- vocabulary of the properties ---------------------------------------------
\* Worker w holds the response of a request of kind op.
Done(w, op) == pc[w] = "done" /\ req[w].op = op

\* company_id names a row of the Company table.
Resolves(cid) == \E c \in companies : Some(c.id) = cid

\* The Feedback rows of company c among the first n committed.
RowsOf(c, n) == {f \in feedbacks : f.company_id = Some(c) /\ f.id <= n}

RECURSIVE SumRatings(_)
SumRatings(S) ==
    IF S = {} THEN 0
    ELSE LET f == CHOOSE x \in S : TRUE IN f.rating + SumRatings(S \ {f})

\* h hundredths is a hundredth nearest to the quotient s / n.
NearestHundredth(h, s, n) ==
    /\ 2 * (100 * s - h * n) <= n
    /\ 2 * (h * n - 100 * s) <= n

\* C1: in every reachable state every persisted Feedback row has a non-null
\* company_id that is the id of an existing Company row.
C1_FeedbackReferencesCompany ==
    \A f \in feedbacks : f.company_id # None /\ Resolves(f.company_id)

\* Feedback for two different companies is persisted while a creation naming no
\* company has been answered.
C1_Witness ==
    /\ \E f, g \in feedbacks : f.company_id # g.company_id
    /\ \E w \in Workers : Done(w, "create_feedback") /\ req[w].arg.company_id = None
                          /\ resp[w].status = 404

\* C2 as stated: every create-feedback request whose company_id does not
\* resolve to a Company ends with 404.
C2_UnresolvedAlways404 ==
    \A w \in Workers :
        Done(w, "create_feedback") /\ ~Resolves(req[w].arg.company_id)
            => resp[w].status = 404

\* C2 amended: a create-feedback request whose company_id does not resolve
\* inserts nothing and leaves both tables as they were; it ends with 404 when
\* its body passes validation (type in the enum, rating in 1..5) and with the
\* validation error 422 otherwise.
C2_UnresolvedRejectedNoInsert ==
    [][\A w \in Workers :
          (/\ pc[w] = "idle"
           /\ pc'[w] # "idle"
           /\ req'[w].op = "create_feedback"
           /\ ~Resolves(req'[w].arg.company_id))
          => /\ pc'[w] = "done"
             /\ feedbacks' = feedbacks
             /\ companies' = companies
             /\ db_feedback'[w] = None
             /\ LET d == req'[w].arg
                IN  resp'[w].status =
                        IF d.type \in FeedbackType /\ d.rating \in 1..5 THEN 404 ELSE 422]_vars

\* A creation naming no company and one naming an unknown id were answered 404
\* while the table holds rows.
C2_Witness ==
    /\ feedbacks # {}
    /\ \E w \in Workers : Done(w, "create_feedback") /\ req[w].arg.company_id = None
                          /\ resp[w].status = 404
    /\ \E w \in Workers : Done(w, "create_feedback") /\ req[w].arg.company_id = Some(4)
                          /\ resp[w].status = 404

\* C3: in every Reputation response total_feedbacks equals
\* feedback_with_rating_count, also when a creation for the company commits
\* between the handler's two queries.
C3_TotalEqualsRatedCount ==
    \A w \in Workers :
        Done(w, "get_reputation") /\ resp[w].status = 200
            => resp[w].body.total_feedbacks = resp[w].body.feedback_with_rating_count

\* C4: a Reputation response for an existing company carries the company's id
\* and name; feedback_with_rating_count is the number of the company's ratings
\* the ratings query found, average_rating is null when there is none and
\* otherwise their sum divided by their number, rounded to the nearest
\* hundredth; total_feedbacks is the number of the company's rows the count
\* query found.  No feedback gives (null, 0, 0); ratings 4, 5, 3 give
\* (4.00, 3, 3).
C4_ReputationValues ==
    \A w \in Workers :
        Done(w, "get_reputation") /\ resp[w].status = 200
            => LET c == req[w].arg
                   b == resp[w].body
                   rated == RowsOf(c, seen[w].mid)
                   n == Cardinality(rated)
               IN  /\ b.company_id = c
                   /\ \E co \in companies : co.id = c /\ co.name = b.company_name
                   /\ b.feedback_with_rating_count = n
                   /\ b.total_feedbacks = Cardinality(RowsOf(c, seen[w].end))
                   /\ n = 0 => b.average_rating = None
                   /\ n > 0 => /\ b.average_rating # None
                               /\ NearestHundredth(TheVal(b.average_rating),
                                                   SumRatings(rated), n)
                   /\ {f.rating : f \in rated} = {4, 5, 3} /\ n = 3
                          => b.average_rating = Some(400)

\* One worker holds the reputation (null, 0, 0) of a company, the other a
\* later one (4.00, 3, 3).
C4_Witness ==
    \E w, v \in Workers :
        /\ Done(w, "get_reputation") /\ resp[w].status = 200
        /\ resp[w].body.average_rating = None
        /\ resp[w].body.total_feedbacks = 0
        /\ resp[w].body.feedback_with_rating_count = 0
        /\ Done(v, "get_reputation") /\ resp[v].status = 200
        /\ resp[v].body.average_rating = Some(400)
        /\ resp[v].body.total_feedbacks = 3
        /\ resp[v].body.feedback_with_rating_count = 3

\* C5: a create-feedback request with a valid type, an existing company and
\* a rating in 1..5 is answered 201 with its row persisted; one with a rating
\* below 1 or above 5 is answered 422 without the handler having looked up a
\* company or built a row; every persisted row has a rating in 1..5.
C5_RatingRange ==
    /\ \A f \in feedbacks : f.rating \in 1..5
    /\ \A w \in Workers :
          Done(w, "create_feedback")
              => LET d == req[w].arg
                 IN  /\ d.rating \in 1..5 /\ d.type \in FeedbackType /\ Resolves(d.company_id)
                        => /\ resp[w].status = 201
                           /\ resp[w].body \in feedbacks
                           /\ resp[w].body.rating = d.rating
                     /\ d.rating \notin 1..5
                        => /\ resp[w].status = 422
                           /\ company[w] = None
                           /\ db_feedback[w] = None
                           /\ seen[w].start = seen[w].end

\* A rating of 5 was accepted and persisted while a rating of 6 was rejected.
C5_Witness ==
    \E w, v \in Workers :
        /\ Done(w, "create_feedback") /\ req[w].arg.rating = 5 /\ resp[w].status = 201
        /\ Done(v, "create_feedback") /\ req[v].arg.rating = 6 /\ resp[v].status = 422

\* C6: for an existing company c, list-feedbacks returns exactly the persisted
\* rows whose company_id is c: all of them, and no row of another company.
C6_ListIsCompanyRows ==
    \A w \in Workers :
        Done(w, "get_feedbacks") /\ resp[w].status = 200
            => /\ Resolves(Some(req[w].arg))
               /\ resp[w].body =
                      {f \in feedbacks : f.id <= seen[w].end /\ f.company_id = Some(req[w].arg)}

\* A listing returned two rows while a row of another company was persisted.
C6_Witness ==
    \E w \in Workers :
        /\ Done(w, "get_feedbacks") /\ resp[w].status = 200
        /\ Cardinality(resp[w].body) = 2
        /\ \E f \in feedbacks : f.id <= seen[w].end /\ f.company_id # Some(req[w].arg)

\* C7: a get-reputation or list-feedbacks request for an id that is no row of
\* the Company table is answered 404 with the not-found message, never a list
\* or a Reputation, and leaves both tables unchanged.
C7_UnknownCompany404 ==
    [][\A w \in Workers :
          (/\ pc[w] = "idle"
           /\ pc'[w] # "idle"
           /\ req'[w].op \in {"get_feedbacks", "get_reputation"}
           /\ ~Resolves(Some(req'[w].arg)))
          => /\ pc'[w] = "done"
             /\ resp'[w] = [status |-> 404, body |-> "Empresa nao encontrada"]
             /\ feedbacks' = feedbacks
             /\ companies' = companies]_vars

\* Both endpoints answered 404 for the unknown id 4 while feedback is persisted.
C7_Witness ==
    /\ feedbacks # {}
    /\ \E w, v \in Workers :
          /\ Done(w, "get_feedbacks") /\ req[w].arg = 4 /\ resp[w].status = 404
          /\ Done(v, "get_reputation") /\ req[v].arg = 4 /\ resp[v].status = 404

\* The GET operations.
GetOps == {"read_root", "get_companies", "get_feedbacks", "get_reputation"}

\* C8: no step of a GET request changes the Company or the Feedback table, and
\* two GET requests with the same arguments, with no creation committed from
\* the start of the earlier to the end of the later, return the same response.
C8_GetsReadOnlyAndRepeatable ==
    /\ [][\A w \in Workers :
             pc'[w] # pc[w] /\ (req[w].op \in GetOps \/ req'[w].op \in GetOps)
                 => companies' = companies /\ feedbacks' = feedbacks]_vars
    /\ [](\A w, v \in Workers :
             (/\ pc[w] = "done" /\ pc[v] = "done"
              /\ req[w].op \in GetOps
              /\ req[w] = req[v]
              /\ seen[w].start = seen[w].end
              /\ seen[v].start = seen[v].end
              /\ seen[w].end = seen[v].end)
             => resp[w] = resp[v])

\* Two workers hold equal, non-trivial answers to the same reputation request
\* and likewise the same listing was answered.
C8_Witness ==
    /\ \E w, v \in Workers :
          /\ w # v
          /\ Done(w, "get_reputation") /\ req[w] = req[v] /\ pc[v] = "done"
          /\ resp[w].status = 200 /\ resp[w].body.total_feedbacks = 2
          /\ seen[w].start = seen[w].end /\ seen[v].start = seen[v].end
          /\ seen[w].end = seen[v].end
          /\ resp[w] = resp[v]

\* C9: when two create-feedback requests for existing companies overlap, both
\* rows are persisted with the submitted values, ids are distinct and assigned
\* by the store, each response returns the row of its own request, and no
\* accepted insert is lost or overwritten.
C9_ConcurrentCreates ==
    /\ \A f, g \in feedbacks : f.id = g.id => f = g
    /\ {f.id : f \in feedbacks} = 1..Cardinality(feedbacks)
    /\ clock = Cardinality(feedbacks)
               + Cardinality({w \in Workers : pc[w] \in {"cf_flush", "cf_commit"}})
    /\ \A w \in Workers :
          pc[w] = "cf_refresh" \/ (Done(w, "create_feedback") /\ resp[w].status \notin {404, 422})
              => LET mine == TheVal(db_feedback[w])
                     d == req[w].arg
                 IN  /\ Stored(mine) \in feedbacks
                     /\ mine.type = d.type /\ mine.rating = d.rating
                     /\ mine.comment = d.comment /\ mine.company_id = d.company_id
                     /\ pc[w] = "done" => resp[w] = [status |-> 201, body |-> Stored(mine)]
    /\ \A w, v \in Workers :
          /\ w # v
          /\ Done(w, "create_feedback") /\ resp[w].status = 201
          /\ Done(v, "create_feedback") /\ resp[v].status = 201
          => resp[w].body.id # resp[v].body.id

\* Two creations that overlapped (both started before either committed) were
\* both answered 201, the one that built its row first receiving the later id.
C9_Witness ==
    \E w, v \in Workers :
        /\ w # v
        /\ Done(w, "create_feedback") /\ resp[w].status = 201
        /\ Done(v, "create_feedback") /\ resp[v].status = 201
        /\ seen[w].start = seen[v].start
        /\ resp[w].body.timestamp < resp[v].body.timestamp
        /\ resp[w].body.id > resp[v].body.id

\* C10: once the Company table is seeded no step changes it; a persisted
\* Feedback row is never modified or removed; the Feedback table grows only by
\* the commit of a create-feedback request, one row at a time, and every such
\* commit is answered 201, the only source of a 201 answer.
C10_TablesOnlyGrowByCreate ==
    [][/\ companies # {} => companies' = companies
       /\ feedbacks \subseteq feedbacks'
       /\ feedbacks' # feedbacks
             => /\ Cardinality(feedbacks' \ feedbacks) = 1
                /\ \E w \in Workers : pc[w] = "cf_commit" /\ pc'[w] = "cf_refresh"
                                      /\ req[w].op = "create_feedback"
       /\ \A w \in Workers :
             /\ pc[w] = "cf_refresh" /\ pc'[w] # pc[w] => resp'[w].status = 201
             /\ resp'[w].status = 201 /\ resp[w].status # 201 => pc[w] = "cf_refresh"]_vars

\* The table holds three rows, the third one just answered, and the Company
\* table is still the three seeded rows.
C10_Witness ==
    /\ Cardinality(feedbacks) = 3
    /\ \E w \in Workers : Done(w, "create_feedback") /\ resp[w].status = 201
                          /\ resp[w].body.id = 3
    /\ \E w \in Workers : Done(w, "get_companies") /\ resp[w].body = SeedCompanies

====
